------------------------------ MODULE Spec2Model ------------------------------
(***************************************************************************)
(* State-machine model of nhanes_dimred.ipynb: the code cells of the       *)
(* notebook, run once from top to bottom, over the two input files         *)
(* BPX_I.XPT and BMX_I.XPT.                                                *)
(*                                                                         *)
(* Numbers.  The notebook computes in float64.  The model computes in      *)
(* exact arithmetic over numbers (n/d)*sqrt(r): n, d integers, r a         *)
(* squarefree positive integer.  Square roots (np.sqrt, std, corrcoef)     *)
(* are taken exactly, so "equal within floating-point tolerance" is        *)
(* exact equality here.  The non-finite float64 values NaN, +inf and -inf  *)
(* are kept (d = 0).                                                       *)
(*                                                                         *)
(* Libraries.  pandas, numpy and statsmodels are modelled by what the      *)
(* called routines compute.  Where a routine leaves its result open (the   *)
(* order, sign and basis of the eigenvectors of np.linalg.eig and of the   *)
(* SVD inside sm.PCA, the order np.argsort gives equal values), every      *)
(* result it may return is a separate step of the model.                   *)
(*                                                                         *)
(* Size.  The tables carry three of the six blood-pressure columns and     *)
(* four of the seven body-measure columns, and seven complete subjects.    *)
(***************************************************************************)
EXTENDS Integers, Sequences, FiniteSets, TLC

-----------------------------------------------------------------------------
(* Exact numbers                                                           *)

Abs(i) == IF i < 0 THEN -i ELSE i

RECURSIVE Gcd(_, _)
Gcd(a, b) == IF b = 0 THEN a ELSE Gcd(b, a % b)

NaN  == [n |-> 0,  d |-> 0, r |-> 1]
PInf == [n |-> 1,  d |-> 0, r |-> 1]
NInf == [n |-> -1, d |-> 0, r |-> 1]
Zero == [n |-> 0,  d |-> 1, r |-> 1]
One  == [n |-> 1,  d |-> 1, r |-> 1]

IsFinite(x) == x.d # 0
IsNaN(x)    == x.d = 0 /\ x.n = 0
IsZero(x)   == x.d # 0 /\ x.n = 0

\* The number (n/d)*sqrt(r) in lowest terms (d # 0, r squarefree).
Norm(n, d, r) ==
    IF n = 0 THEN Zero
    ELSE LET g == Gcd(Abs(n), Abs(d))
             s == IF d < 0 THEN -1 ELSE 1
         IN  [n |-> s * (n \div g), d |-> s * (d \div g), r |-> r]

Int2Num(i) == [n |-> i, d |-> 1, r |-> 1]

Sign(x) == IF x.n > 0 THEN 1 ELSE IF x.n < 0 THEN -1 ELSE 0

Unrepresentable == CHOOSE x \in {} : TRUE

Neg(x) == [x EXCEPT !.n = -x.n]

Add(x, y) ==
    IF IsNaN(x) \/ IsNaN(y) THEN NaN
    ELSE IF ~IsFinite(x) THEN (IF ~IsFinite(y) /\ y.n # x.n THEN NaN ELSE x)
    ELSE IF ~IsFinite(y) THEN y
    ELSE IF x.n = 0 THEN y
    ELSE IF y.n = 0 THEN x
    ELSE IF x.r = y.r THEN Norm(x.n * y.d + y.n * x.d, x.d * y.d, x.r)
    ELSE Unrepresentable

Sub(x, y) == Add(x, Neg(y))

Mul(x, y) ==
    IF IsNaN(x) \/ IsNaN(y) THEN NaN
    ELSE IF ~IsFinite(x) \/ ~IsFinite(y)
         THEN (IF Sign(x) * Sign(y) = 0 THEN NaN
               ELSE IF Sign(x) * Sign(y) > 0 THEN PInf ELSE NInf)
    ELSE LET g == Gcd(x.r, y.r)
         IN  Norm(x.n * y.n * g, x.d * y.d, (x.r \div g) * (y.r \div g))

\* 1/x in float64: 1/0 is inf, 1/inf is 0.
Recip(x) ==
    IF IsNaN(x) THEN NaN
    ELSE IF ~IsFinite(x) THEN Zero
    ELSE IF x.n = 0 THEN PInf
    ELSE Norm(x.d * (IF x.n < 0 THEN -1 ELSE 1), Abs(x.n) * x.r, x.r)

\* x / y in float64: 0/0 is NaN, x/0 is +-inf.
Div(x, y) ==
    IF IsFinite(x) /\ IsZero(y) THEN (IF x.n = 0 THEN NaN
                                      ELSE IF x.n > 0 THEN PInf ELSE NInf)
    ELSE Mul(x, Recip(y))

\* The largest s with s*s dividing m, by trial division from k.
RECURSIVE SqPart(_, _)
SqPart(m, k) ==
    IF k * k > m THEN 1
    ELSE IF m % (k * k) = 0 THEN k * SqPart(m \div (k * k), k)
    ELSE SqPart(m, k + 1)

\* np.sqrt of a rational: sqrt(a/b) = sqrt(a*b)/b; negative gives NaN.
Sqrt(x) ==
    IF IsNaN(x) THEN NaN
    ELSE IF ~IsFinite(x) THEN (IF x.n > 0 THEN PInf ELSE NaN)
    ELSE IF x.n = 0 THEN Zero
    ELSE IF x.n < 0 THEN NaN
    ELSE IF x.r # 1 THEN Unrepresentable
    ELSE LET m == x.n * x.d
             s == SqPart(m, 2)
         IN  Norm(s, x.d, m \div (s * s))

\* x < y for finite numbers of one radical (or rationals); false with a NaN.
Less(x, y) ==
    /\ ~IsNaN(x) /\ ~IsNaN(y)
    /\ IF ~IsFinite(x) \/ ~IsFinite(y)
       THEN (x = NInf /\ y # NInf) \/ (y = PInf /\ x # PInf)
       ELSE Sign(Sub(x, y)) < 0

Leq(x, y) == Less(x, y) \/ (x = y /\ ~IsNaN(x))

NumAbs(x) == IF x.n < 0 THEN Neg(x) ELSE x


-----------------------------------------------------------------------------
(* numpy arrays: a vector is a sequence of numbers, a matrix a sequence of *)
(* rows.                                                                   *)

RECURSIVE SumSeq(_)
SumSeq(s) == IF s = <<>> THEN Zero ELSE Add(Head(s), SumSeq(Tail(s)))

NCols(M) == IF M = <<>> THEN 0 ELSE Len(M[1])

Column(M, j) == [i \in 1..Len(M) |-> M[i][j]]

\* M.T
Transpose(M) == [j \in 1..NCols(M) |-> Column(M, j)]

VDot(u, v) == SumSeq([k \in 1..Len(u) |-> Mul(u[k], v[k])])

\* np.dot(A, B) for matrices
Dot(A, B) ==
    [i \in 1..Len(A) |-> [j \in 1..NCols(B) |-> VDot(A[i], Column(B, j))]]

\* np.diag(v)
Diag(v) == [i \in 1..Len(v) |-> [j \in 1..Len(v) |-> IF i = j THEN v[i] ELSE Zero]]

\* np.eye(n)
Eye(n) == [i \in 1..n |-> [j \in 1..n |-> IF i = j THEN One ELSE Zero]]

MatSub(A, B) == [i \in 1..Len(A) |-> [j \in 1..NCols(A) |-> Sub(A[i][j], B[i][j])]]

Entries(M) == {M[i][j] : i \in 1..Len(M), j \in 1..NCols(M)}

\* np.max(np.abs(M)): NaN as soon as one entry is NaN
MaxAbs(M) ==
    LET E == {NumAbs(x) : x \in Entries(M)}
    IN  IF \E x \in E : IsNaN(x) THEN NaN
        ELSE CHOOSE x \in E : \A y \in E : Leq(y, x)

HasNonFinite(M) == \E x \in Entries(M) : ~IsFinite(x)

\* v.mean() of a vector: the sum over the length (0/0 for an empty one)
VMean(v) == Div(SumSeq(v), Int2Num(Len(v)))

\* the sum of products of deviations of two vectors, over (n - ddof)
Cov2(u, v, ddof) ==
    LET mu == VMean(u)
        mv == VMean(v)
    IN  Div(SumSeq([k \in 1..Len(u) |-> Mul(Sub(u[k], mu), Sub(v[k], mv))]),
            Int2Num(Len(u) - ddof))

\* np.cov(X) of a matrix whose rows are the variables (ddof = 1)
NpCov(X) == [i \in 1..Len(X) |-> [j \in 1..Len(X) |-> Cov2(X[i], X[j], 1)]]

\* np.clip(x, -1, 1); NaN stays NaN
Clip1(x) ==
    IF IsNaN(x) THEN x
    ELSE IF Less(One, x) THEN One
    ELSE IF Less(x, Neg(One)) THEN Neg(One)
    ELSE x

\* np.corrcoef(X) of a matrix whose rows are the variables:
\* c = cov(X); c /= sqrt(diag)[:, None]; c /= sqrt(diag)[None, :]; clip
NpCorrcoef(X) ==
    LET cv == NpCov(X)
        sd == [i \in 1..Len(X) |-> Sqrt(cv[i][i])]
    IN  [i \in 1..Len(X) |-> [j \in 1..Len(X) |->
            Clip1(Div(Div(cv[i][j], sd[i]), sd[j]))]]

-----------------------------------------------------------------------------
(* pandas: a DataFrame is a record of its column names, its index labels   *)
(* and its rows; a Series a record of its labels and values.  A missing    *)
(* value is NaN.                                                           *)

ColIdx(t, name) == CHOOSE j \in 1..Len(t.columns) : t.columns[j] = name

\* t.values.T: one row per column of t
ValuesT(t) == [j \in 1..Len(t.columns) |-> [i \in 1..Len(t.data) |-> t.data[i][j]]]

\* pd.read_sas: the rows of the file under a fresh RangeIndex 0..n-1
ReadSas(file) ==
    [columns |-> file.columns,
     index   |-> [i \in 1..Len(file.data) |-> i - 1],
     data    |-> file.data]

\* t.loc[:, names]: the named columns, in the order asked, all rows
Loc(t, names) ==
    [columns |-> names,
     index   |-> t.index,
     data    |-> [i \in 1..Len(t.data) |->
                    [k \in 1..Len(names) |-> t.data[i][ColIdx(t, names[k])]]]]

RowHasNa(row) == \E j \in 1..Len(row) : IsNaN(row[j])

\* the positions 1..n, in order, of the rows t.dropna() keeps
RECURSIVE KeptFrom(_, _)
KeptFrom(t, i) ==
    IF i > Len(t.data) THEN <<>>
    ELSE IF RowHasNa(t.data[i]) THEN KeptFrom(t, i + 1)
    ELSE <<i>> \o KeptFrom(t, i + 1)

\* t.dropna(how = "all"): only a row with no value at all is dropped
DropNaHowAll(t) ==
    LET keep == SelectSeq([i \in 1..Len(t.data) |-> i],
                          LAMBDA i : \E j \in 1..Len(t.data[i]) : ~IsNaN(t.data[i][j]))
    IN  [columns |-> t.columns,
         index   |-> [k \in 1..Len(keep) |-> t.index[keep[k]]],
         data    |-> [k \in 1..Len(keep) |-> t.data[keep[k]]]]

\* t.dropna(): how = "any", axis = 0; the index labels of the kept rows stay
DropNa(t) ==
    LET keep == KeptFrom(t, 1)
    IN  [columns |-> t.columns,
         index   |-> [k \in 1..Len(keep) |-> t.index[keep[k]]],
         data    |-> [k \in 1..Len(keep) |-> t.data[keep[k]]]]

NotNa(v) == SelectSeq(v, LAMBDA x : ~IsNaN(x))

\* t.mean(0): per column, over the values that are not NaN
FrameMean(t) ==
    [index  |-> t.columns,
     values |-> [j \in 1..Len(t.columns) |-> VMean(NotNa(ValuesT(t)[j]))]]

\* t.std(0): per column, ddof = 1, over the values that are not NaN
FrameStd(t) ==
    [index  |-> t.columns,
     values |-> [j \in 1..Len(t.columns) |->
                   LET v == NotNa(ValuesT(t)[j]) IN Sqrt(Cov2(v, v, 1))]]

\* the value a Series holds under a label; NaN when the label is absent
SeriesAt(s, name) ==
    IF \E k \in 1..Len(s.index) : s.index[k] = name
    THEN s.values[CHOOSE k \in 1..Len(s.index) : s.index[k] = name]
    ELSE NaN

\* t -= s: the Series is aligned with the columns of t by label and the
\* result is written back into t with the columns t had
ISubSeries(t, s) ==
    [t EXCEPT !.data = [i \in 1..Len(t.data) |-> [j \in 1..Len(t.columns) |->
        Sub(t.data[i][j], SeriesAt(s, t.columns[j]))]]]

\* t /= s
IDivSeries(t, s) ==
    [t EXCEPT !.data = [i \in 1..Len(t.data) |-> [j \in 1..Len(t.columns) |->
        Div(t.data[i][j], SeriesAt(s, t.columns[j]))]]]

-----------------------------------------------------------------------------
(* LAPACK results.  np.linalg.eig and np.linalg.svd return eigenvectors    *)
(* scaled to unit length; which unit vector of an eigenspace, and which    *)
(* sign, is the library's choice.  The model draws the direction of every  *)
(* returned vector from the integer vectors with entries of at most        *)
(* DirBound in absolute value and no common factor, and scales it to unit  *)
(* length exactly.                                                         *)

DirBound == 2

RECURSIVE GcdSeq(_)
GcdSeq(u) == IF u = <<>> THEN 0 ELSE Gcd(Abs(Head(u)), GcdSeq(Tail(u)))

Dirs(p) == {u \in [1..p -> (-DirBound)..DirBound] : GcdSeq(u) = 1}

RECURSIVE SumInts(_)
SumInts(s) == IF s = <<>> THEN 0 ELSE Head(s) + SumInts(Tail(s))

IDot(u, v) == SumInts([k \in 1..Len(u) |-> u[k] * v[k]])

\* the matrix M without row 1 and column j
Minor(M, j) ==
    [i \in 1..(Len(M) - 1) |-> [k \in 1..(Len(M) - 1) |->
        M[i + 1][IF k < j THEN k ELSE k + 1]]]

RECURSIVE Det(_)
Det(M) ==
    IF Len(M) = 1 THEN M[1][1]
    ELSE SumInts([j \in 1..Len(M) |->
            (IF j % 2 = 1 THEN 1 ELSE -1) * M[1][j] * Det(Minor(M, j))])

\* C times the integer vector u
MatVec(C, u) ==
    [i \in 1..Len(C) |-> SumSeq([j \in 1..Len(u) |-> Mul(C[i][j], Int2Num(u[j]))])]

\* the number lambda with C u = lambda u, read off the first non-zero entry
EigvalOf(C, u) ==
    LET k == CHOOSE i \in 1..Len(u) : u[i] # 0 /\ \A j \in 1..(i - 1) : u[j] = 0
    IN  Div(MatVec(C, u)[k], Int2Num(u[k]))

IsEigvec(C, u) ==
    LET cu  == MatVec(C, u)
        lam == EigvalOf(C, u)
    IN  \A i \in 1..Len(u) : cu[i] = Mul(lam, Int2Num(u[i]))

EigDirs(C) == {u \in Dirs(Len(C)) : IsEigvec(C, u)}

\* u / ||u||
Unit(u) == [j \in 1..Len(u) |-> Div(Int2Num(u[j]), Sqrt(Int2Num(IDot(u, u))))]

\* the matrix whose k-th column is the unit vector along f[k]
UnitColumns(f) ==
    LET cols == [k \in 1..Len(f) |-> Unit(f[k])]
    IN  [i \in 1..Len(f) |-> [k \in 1..Len(f) |-> cols[k][i]]]

\* the candidate eigenvectors of C, each with its eigenvalue
EigPairs(C) == {[u |-> u, lam |-> EigvalOf(C, u)] : u \in EigDirs(C)}

\* np.linalg.eig(C) for a finite real symmetric C: w[k] is an eigenvalue and
\* v[:, k] a unit eigenvector for it; the eigenvalues come in no particular
\* order, the eigenvectors are linearly independent, and nothing makes two
\* eigenvectors of one repeated eigenvalue orthogonal.
LinalgEig(C) ==
    LET cands == EigPairs(C)
        p     == Len(C)
    IN  {[w |-> [k \in 1..p |-> f[k].lam],
          v |-> UnitColumns([k \in 1..p |-> f[k].u])] :
            f \in {g \in [1..p -> cands] : Det([k \in 1..p |-> g[k].u]) # 0}}

Perms(n) == {f \in [1..n -> 1..n] : \A i, j \in 1..n : i # j => f[i] # f[j]}

\* np.argsort(v): a permutation that puts v in ascending order; the order
\* of equal values is the sorting routine's choice
ArgSort(v) ==
    {f \in Perms(Len(v)) : \A i \in 1..(Len(v) - 1) : Leq(v[f[i]], v[f[i + 1]])}

\* f, with the [::-1] left out
Unreversed(f) == f

\* f[::-1]
Reversed(f) == [k \in 1..Len(f) |-> f[Len(f) + 1 - k]]

\* v itself: the reordering eiv = eiv[ii] left out
TakeNone(v, ii) == v

\* v[ii]
Take(v, ii) == [k \in 1..Len(ii) |-> v[ii[k]]]

\* M[:, ii]
TakeColumns(M, ii) == [i \in 1..Len(M) |-> [k \in 1..Len(ii) |-> M[i][ii[k]]]]

-----------------------------------------------------------------------------
(* The notebook's column lists.  The model carries the first three of the  *)
(* six blood-pressure names and the first four of the seven body-measure   *)
(* names.                                                                  *)

bpx_vars == <<"BPXSY1", "BPXSY2", "BPXSY3">>
bmx_vars == <<"BMXWT", "BMXHT", "BMXBMI", "BMXLEG">>

\* the number of components asked of sm.PCA
ncomp == 3

-----------------------------------------------------------------------------
(* The input files.  A file holds BaseRows complete subjects, whose        *)
(* measurements follow one of the Pool patterns per column (pattern 0 is a *)
(* constant column), and some rows with a missing value.  The patterns     *)
(* have mean 0 and sample variance 1, so that every standard deviation     *)
(* and correlation the notebook computes is a rational number.             *)

Pool == [k \in 0..4 |->
    CASE k = 0 -> << 0,  0, 0, 0,  0,  0,  0>>
      [] k = 1 -> << 2,  0, 0, 0, -1,  0, -1>>
      [] k = 2 -> <<-1,  1, 0, 1, -1, -1,  1>>
      [] k = 3 -> << 0, -1, 2, 0,  0, -1,  0>>
      [] k = 4 -> << 0,  0, 0, 2, -1,  0, -1>>]

BmxPool == [k \in 1..4 |->
    CASE k = 1 -> << 2, -1, -1,  0,  0,  0, 0>>
      [] k = 2 -> <<-1,  2, -1,  0,  0,  0, 0>>
      [] k = 3 -> << 0,  0,  0,  2, -1, -1, 0>>
      [] k = 4 -> << 0,  0,  0, -1, -1,  0, 2>>]

\* the number of complete subjects of a file
BaseRows == Len(Pool[0])

BpxFileColumns == <<"SEQN", "BPXPLS", "BPXML1">> \o bpx_vars
BmxFileColumns == <<"SEQN">> \o bmx_vars

\* subject i of the blood-pressure file; BPXML1 is a column the notebook
\* never selects
BpxBaseRow(pats, i) ==
    <<Int2Num(100 + i), Int2Num(60 + 2 * i), IF i = 2 THEN NaN ELSE Int2Num(140)>>
    \o [k \in 1..Len(bpx_vars) |-> Int2Num(120 + 2 * Pool[pats[k]][i])]

\* a row of the blood-pressure file with the value of column miss missing
BpxJunkRow(seqn, miss) ==
    [j \in 1..Len(BpxFileColumns) |->
        IF BpxFileColumns[j] = miss THEN NaN
        ELSE IF BpxFileColumns[j] = "SEQN" THEN Int2Num(seqn)
        ELSE Int2Num(300)]

\* subject i of the body-measures file: the subjects 109, 108, ..., 103
BmxBaseRow(i) ==
    <<Int2Num(110 - i)>>
    \o [k \in 1..Len(bmx_vars) |-> Int2Num(50 + 10 * k + 3 * BmxPool[k][i])]

BmxJunkRow(seqn, miss) ==
    [j \in 1..Len(BmxFileColumns) |->
        IF BmxFileColumns[j] = miss THEN NaN
        ELSE IF BmxFileColumns[j] = "SEQN" THEN Int2Num(seqn)
        ELSE Int2Num(500)]

\* the base rows 1..n with the junk rows put in: junk[k].at is the base row
\* the k-th junk row comes right before (n + 1: after the last)
RECURSIVE Weave(_, _, _)
Weave(base, junk, i) ==
    LET here == SelectSeq(junk, LAMBDA j : j.at = i)
        rows == [k \in 1..Len(here) |-> here[k].row]
    IN  IF i > Len(base) THEN rows
        ELSE rows \o <<base[i]>> \o Weave(base, junk, i + 1)

\* the rows with a missing value the blood-pressure files of the model are
\* given: none; or subject 201 without BPXSY2 before the first subject and
\* subject 108 without BPXPLS before the fifth
BpxJunkNone == <<>>

BpxJunkTwo ==
    << [at |-> 1, row |-> BpxJunkRow(201, "BPXSY2")],
       [at |-> 5, row |-> BpxJunkRow(108, "BPXPLS")] >>

BpxJunk == {BpxJunkNone, BpxJunkTwo}

BpxFile(pats, junk) ==
    [columns |-> BpxFileColumns,
     data    |-> Weave([i \in 1..BaseRows |-> BpxBaseRow(pats, i)], junk, 1)]

\* the rows with a missing value of the body-measures files: subject 101
\* without BMXHT before the third subject; or subject 102 without BMXWT
\* after the last
BmxJunkMid == << [at |-> 3, row |-> BmxJunkRow(101, "BMXHT")] >>

BmxJunkEnd == << [at |-> BaseRows + 1, row |-> BmxJunkRow(102, "BMXWT")] >>

BmxJunk == {BmxJunkMid, BmxJunkEnd}

BmxFile(junk) ==
    [columns |-> BmxFileColumns,
     data    |-> Weave([i \in 1..BaseRows |-> BmxBaseRow(i)], junk, 1)]

-----------------------------------------------------------------------------
(* statsmodels: sm.PCA(data, ncomp) with its defaults (standardize, demean *)
(* and normalize on, method "svd").                                        *)

\* np.linalg.svd(x) for a matrix with at least as many rows as columns: the
\* singular values in descending order and, as the rows of vt, orthonormal
\* eigenvectors of x'x; which orthonormal basis of an eigenspace, and which
\* signs, is the library's choice.
LinalgSvd(x) ==
    LET G     == Dot(Transpose(x), x)
        cands == EigPairs(G)
        p     == Len(G)
        ok(f) == /\ \A i, j \in 1..p : i # j => IDot(f[i].u, f[j].u) = 0
                 /\ \A k \in 1..(p - 1) : Leq(f[k + 1].lam, f[k].lam)
    IN  {[s  |-> [k \in 1..p |-> Sqrt(f[k].lam)],
          vt |-> [k \in 1..p |-> Unit(f[k].u)]] : f \in {g \in [1..p -> cands] : ok(g)}}

\* PCA._prepare_data: (data - mu) / sigma, sigma with ddof = 0
PcaStandardize(X) ==
    LET cols == Transpose(X)
        mu   == [j \in 1..Len(cols) |-> VMean(cols[j])]
        sg   == [j \in 1..Len(cols) |-> Sqrt(Cov2(cols[j], cols[j], 0))]
    IN  [i \in 1..Len(X) |-> [j \in 1..Len(cols) |-> Div(Sub(X[i][j], mu[j]), sg[j])]]

Min2(a, b) == IF a < b THEN a ELSE b

\* the first k entries of a vector
Prefix(v, k) == [i \in 1..Min2(k, Len(v)) |-> v[i]]

\* PCA._compute_using_svd and PCA._compute_pca_from_eig on the frame t, for
\* the singular value decomposition sv of the standardized data and the
\* sorting permutation ii of the eigenvalues
PcaFit(t, nc, sv, ii) ==
    LET x      == PcaStandardize(t.data)
        vals0  == Take([k \in 1..Len(sv.s) |-> Mul(sv.s[k], sv.s[k])], ii)
        vecs0  == TakeColumns(Transpose(sv.vt), ii)
        mindim == Min2(Len(t.data), Len(t.columns))
        nc1    == Min2(nc, mindim)
        good   == Cardinality({k \in 1..Len(vals0) : Less(Zero, vals0[k])})
        nc2    == Min2(nc1, good)
        vals   == Prefix(vals0, nc2)
        vecs   == [i \in 1..Len(vecs0) |-> Prefix(vecs0[i], nc2)]
        fac    == Dot(x, vecs)
    IN  [eigenvals |-> vals,
         eigenvecs |-> vecs,
         coeff     |-> [k \in 1..nc2 |-> [j \in 1..Len(vecs) |->
                          Mul(vecs[j][k], Sqrt(vals[k]))]],
         scores    |-> [i \in 1..Len(fac) |-> [k \in 1..nc2 |->
                          Div(fac[i][k], Sqrt(vals[k]))]],
         columns   |-> t.columns,
         index     |-> t.index]

\* every result sm.PCA(t, ncomp = nc) can return
SmPCA(t, nc) ==
    UNION {{PcaFit(t, nc, sv, Reversed(ii0)) :
                ii0 \in ArgSort([k \in 1..Len(sv.s) |-> Mul(sv.s[k], sv.s[k])])} :
           sv \in LinalgSvd(PcaStandardize(t.data))}

-----------------------------------------------------------------------------
(* The notebook's own computations                                         *)

\* v**2 / np.sum(v**2)
VarianceExplained(v) ==
    LET sq == [k \in 1..Len(v) |-> Mul(v[k], v[k])]
    IN  [k \in 1..Len(v) |-> Div(sq[k], SumSeq(sq))]

\* c / np.sqrt((c**2).sum(1)): the sum taken along the other axis, and the
\* lengths of the rows spread over the columns
UnitLengthRows(cm) ==
    LET len == [i \in 1..Len(cm) |->
                  Sqrt(SumSeq([k \in 1..NCols(cm) |-> Mul(cm[i][k], cm[i][k])]))]
    IN  [i \in 1..Len(cm) |-> [k \in 1..NCols(cm) |-> Div(cm[i][k], len[k])]]

\* c / np.sqrt((c**2).sum(0)): every column of c over its length
UnitLengthColumns(cm) ==
    LET len == [k \in 1..NCols(cm) |->
                  Sqrt(SumSeq([i \in 1..Len(cm) |-> Mul(cm[i][k], cm[i][k])]))]
    IN  [i \in 1..Len(cm) |-> [k \in 1..NCols(cm) |-> Div(cm[i][k], len[k])]]

\* m.mean(0) of a matrix
ColumnMeans(M) == [j \in 1..NCols(M) |-> VMean(Column(M, j))]

\* pd.merge(left, right, left_on = key, right_on = key): the inner join, in
\* the order of the left rows; the key column is kept once
RECURSIVE MergeFrom(_, _, _, _)
MergeFrom(left, right, key, i) ==
    IF i > Len(left.data) THEN <<>>
    ELSE LET kv      == left.data[i][ColIdx(left, key)]
             rcols   == SelectSeq([j \in 1..Len(right.columns) |-> j],
                                  LAMBDA j : right.columns[j] # key)
             matches == SelectSeq(right.data,
                                  LAMBDA r : r[ColIdx(right, key)] = kv)
         IN  [m \in 1..Len(matches) |->
                 left.data[i] \o [k \in 1..Len(rcols) |-> matches[m][rcols[k]]]]
             \o MergeFrom(left, right, key, i + 1)

\* pd.merge(..., how = "left"): every row of left, with missing values where
\* right has no row for its key
PdMergeLeft(left, right, key) ==
    LET rcols == SelectSeq([j \in 1..Len(right.columns) |-> j],
                           LAMBDA j : right.columns[j] # key)
        rowOf(i) ==
            LET kv      == left.data[i][ColIdx(left, key)]
                matches == SelectSeq(right.data,
                                     LAMBDA r : r[ColIdx(right, key)] = kv)
            IN  left.data[i] \o [k \in 1..Len(rcols) |->
                    IF matches = <<>> THEN NaN ELSE matches[1][rcols[k]]]
    IN  [columns |-> left.columns \o SelectSeq(right.columns, LAMBDA n : n # key),
         index   |-> [i \in 1..Len(left.data) |-> i - 1],
         data    |-> [i \in 1..Len(left.data) |-> rowOf(i)]]

PdMerge(left, right, key) ==
    LET rows == MergeFrom(left, right, key, 1)
    IN  [columns |-> left.columns \o SelectSeq(right.columns, LAMBDA n : n # key),
         index   |-> [i \in 1..Len(rows) |-> i - 1],
         data    |-> rows]

-----------------------------------------------------------------------------
(* The files the notebook is run on.                                       *)

\* the columns cell 3 selects
BpxSelected == bpx_vars \o <<"SEQN", "BPXPLS">>

\* the table cells 3 and 5 make of a blood-pressure file
BpxTable(file) == Loc(DropNa(Loc(ReadSas(file), BpxSelected)), bpx_vars)

\* the table cell 37 makes of a body-measures file
BmxTable(file) == DropNa(Loc(ReadSas(file), bmx_vars))

\* the patterns of the three blood-pressure columns: in ascending order,
\* and no two columns alike unless they are constant
PatTuples ==
    {f \in [1..Len(bpx_vars) -> 0..4] :
        \A k \in 1..(Len(bpx_vars) - 1) :
            f[k] < f[k + 1] \/ (f[k] = 0 /\ f[k + 1] = 0)}

BpxFiles == {BpxFile(pats, junk) : pats \in PatTuples, junk \in BpxJunk}

BmxFiles == {BmxFile(junk) : junk \in BmxJunk}

\* np.linalg.eig and sm.PCA are functions of their arguments: what they can
\* return for the tables of the files is computed once
EigTable ==
    {[arg |-> C, out |-> LinalgEig(C)] :
        C \in {D \in {NpCorrcoef(ValuesT(BpxTable(f))) : f \in BpxFiles} :
                  ~HasNonFinite(D)}}

PcaTable ==
    {[arg |-> t, out |-> SmPCA(t, ncomp)] :
        t \in {u \in {BpxTable(f) : f \in BpxFiles} :
                  ~HasNonFinite(NpCorrcoef(ValuesT(u)))}
              \cup {BmxTable(f) : f \in BmxFiles}}

EigOf(C) ==
    LET hit == {m \in EigTable : m.arg = C}
    IN  IF hit = {} THEN LinalgEig(C) ELSE (CHOOSE m \in hit : TRUE).out

PcaOf(t, nc) ==
    LET hit == {m \in PcaTable : m.arg = t}
    IN  IF hit = {} \/ nc # ncomp THEN SmPCA(t, nc)
        ELSE (CHOOSE m \in hit : TRUE).out

-----------------------------------------------------------------------------
(* The state: the two input files, the notebook's position, the DataFrame  *)
(* objects (heap) and the notebook's global names.  A name of a DataFrame  *)
(* holds the position of its object in heap (0: not bound); the other      *)
(* names hold their value (<<>>: not bound).  pc is the code cell to run   *)
(* next and the part of it; cell 1, the imports, has run.                  *)

VARIABLES bpxFile, bmxFile, pc, err, heap,
          df, da, ds, bmx, bpx, bpmx,
          bpx_cor, eiv, eig, scores, rslt, c, scores_sm, bmx_cor, ca,
          i0, i1, i2, i3, fa,
          out7, out13, out17, out21, out31, out41, sc

frames  == <<df, da, ds, bmx, bpx, bpmx>>
arrays  == <<bpx_cor, eiv, eig, scores, rslt, c, scores_sm, bmx_cor, ca>>
outputs == <<out7, out13, out17, out31, out41>>
files   == <<bpxFile, bmxFile>>
masks   == <<i0, i1, i2, i3>>
others  == <<masks, fa, out21, sc>>
vars    == <<files, pc, err, heap, frames, arrays, outputs, others>>

NoRslt == [eigenvals |-> <<>>, eigenvecs |-> <<>>, coeff |-> <<>>,
           scores |-> <<>>, columns |-> <<>>, index |-> <<>>]

\* the frame .loc[:, names] returns is a new object: a copy
FrameLoc(h, id, names) ==
    [heap |-> Append(h, Loc(h[id], names)), ref |-> Len(h) + 1]

\* the notebook before its first code cell that computes
Fresh ==
    /\ pc = <<3, 1>>
    /\ err = "none"
    /\ heap = <<>>
    /\ df = 0 /\ da = 0 /\ ds = 0 /\ bmx = 0 /\ bpx = 0 /\ bpmx = 0
    /\ bpx_cor = <<>> /\ eiv = <<>> /\ eig = <<>> /\ scores = <<>>
    /\ rslt = NoRslt /\ c = <<>> /\ scores_sm = <<>> /\ bmx_cor = <<>>
    /\ ca = <<>>
    /\ out7 = <<>> /\ out13 = <<>> /\ out17 = <<>> /\ out31 = <<>> /\ out41 = <<>>
    /\ i0 = <<>> /\ i1 = <<>> /\ i2 = <<>> /\ i3 = <<>> /\ fa = <<>> /\ out21 = <<>>
    /\ sc = <<>>

At(cell, part) == pc = <<cell, part>> /\ err = "none"

\* cell 3: df = pd.read_sas("BPX_I.XPT");
\*         da = df.loc[:, bpx_vars + ["SEQN", "BPXPLS"]].dropna()
Cell3 ==
    /\ At(3, 1)
    /\ LET h1 == Append(heap, ReadSas(bpxFile))
           h2 == Append(h1, DropNa(Loc(h1[Len(h1)], BpxSelected)))
       IN  /\ heap' = h2
           /\ df' = Len(h1)
           /\ da' = Len(h2)
    /\ pc' = <<5, 1>>
    /\ UNCHANGED <<files, others, err, ds, bmx, bpx, bpmx, arrays, outputs>>

\* cell 5: bpx_cor = np.corrcoef(da.loc[:, bpx_vars].T)
Cell5 ==
    /\ At(5, 1)
    /\ bpx_cor' = NpCorrcoef(ValuesT(Loc(heap[da], bpx_vars)))
    /\ pc' = <<7, 1>>
    /\ UNCHANGED <<files, others, err, heap, frames, eiv, eig, scores, rslt, c,
                   scores_sm, bmx_cor, ca, outputs>>

\* cell 7, first part, with an eig that does not reject NaN or inf: it
\* returns NaN for every eigenvalue and eigenvector entry of such a matrix
Cell7EigNoCheck ==
    /\ At(7, 1)
    /\ IF HasNonFinite(bpx_cor)
       THEN /\ eiv' = [k \in 1..Len(bpx_cor) |-> NaN]
            /\ eig' = [i \in 1..Len(bpx_cor) |-> [k \in 1..Len(bpx_cor) |-> NaN]]
            /\ out7' = [recon |-> NaN, orth |-> NaN]
            /\ pc' = <<7, 2>>
            /\ UNCHANGED err
       ELSE \E o \in EigOf(bpx_cor) :
            /\ eiv' = o.w
            /\ eig' = o.v
            /\ out7' = [recon |-> MaxAbs(MatSub(bpx_cor,
                                    Dot(o.v, Dot(Diag(o.w), Transpose(o.v))))),
                        orth  |-> MaxAbs(MatSub(Dot(o.v, Transpose(o.v)),
                                                Eye(Len(bpx_vars))))]
            /\ pc' = <<7, 2>>
            /\ UNCHANGED err
    /\ UNCHANGED <<files, others, heap, frames, bpx_cor, scores, rslt, c, scores_sm,
                   bmx_cor, ca, out13, out17, out31, out41>>

\* cell 7, first part: eiv, eig = np.linalg.eig(bpx_cor) and the two printed
\* checks; np.linalg.eig raises LinAlgError on a matrix with a NaN or inf
Cell7Eig ==
    /\ At(7, 1)
    /\ IF HasNonFinite(bpx_cor)
       THEN /\ err' = "LinAlgError"
            /\ UNCHANGED <<pc, eiv, eig, out7>>
       ELSE \E o \in EigOf(bpx_cor) :
            /\ eiv' = o.w
            /\ eig' = o.v
            /\ out7' = [recon |-> MaxAbs(MatSub(bpx_cor,
                                    Dot(o.v, Dot(Diag(o.w), Transpose(o.v))))),
                        orth  |-> MaxAbs(MatSub(Dot(o.v, Transpose(o.v)),
                                                Eye(Len(bpx_vars))))]
            /\ pc' = <<7, 2>>
            /\ UNCHANGED err
    /\ UNCHANGED <<files, others, heap, frames, bpx_cor, scores, rslt, c, scores_sm,
                   bmx_cor, ca, out13, out17, out31, out41>>

\* cell 7, second part: ii = np.argsort(eiv)[::-1]; eiv = eiv[ii];
\* eig = eig[:, ii]
Cell7Sort ==
    /\ At(7, 2)
    /\ \E ii0 \in ArgSort(eiv) :
        LET ii == Reversed(ii0)
        IN  /\ eiv' = Take(eiv, ii)
            /\ eig' = TakeColumns(eig, ii)
    /\ pc' = <<13, 1>>
    /\ UNCHANGED <<files, others, err, heap, frames, bpx_cor, scores, rslt, c,
                   scores_sm, bmx_cor, ca, outputs>>

\* cell 13: print(eiv**2 / np.sum(eiv**2))
Cell13 ==
    /\ At(13, 1)
    /\ out13' = VarianceExplained(eiv)
    /\ pc' = <<15, 1>>
    /\ UNCHANGED <<files, others, err, heap, frames, arrays, out7, out17, out31, out41>>

\* cell 15 with the mean taken off da instead: da -= da.mean(0)
Cell15OnDa ==
    /\ At(15, 1)
    /\ LET a  == FrameLoc(heap, da, bpx_vars)
           h1 == [a.heap EXCEPT ![da] = ISubSeries(@, FrameMean(@))]
           h2 == [h1 EXCEPT ![a.ref] = IDivSeries(@, FrameStd(h1[da]))]
       IN  /\ heap' = h2
           /\ ds' = a.ref
           /\ scores' = Dot(h2[a.ref].data, eig)
    /\ pc' = <<17, 1>>
    /\ UNCHANGED <<files, others, err, df, da, bmx, bpx, bpmx, bpx_cor, eiv, eig, rslt,
                   c, scores_sm, bmx_cor, ca, outputs>>

\* cell 15: ds = da.loc[:, bpx_vars]; ds -= ds.mean(0); ds /= da.std(0);
\*          scores = np.dot(ds, eig)
Cell15 ==
    /\ At(15, 1)
    /\ LET a  == FrameLoc(heap, da, bpx_vars)
           h1 == [a.heap EXCEPT ![a.ref] = ISubSeries(@, FrameMean(@))]
           h2 == [h1 EXCEPT ![a.ref] = IDivSeries(@, FrameStd(h1[da]))]
       IN  /\ heap' = h2
           /\ ds' = a.ref
           /\ scores' = Dot(h2[a.ref].data, eig)
    /\ pc' = <<17, 1>>
    /\ UNCHANGED <<files, others, err, df, da, bmx, bpx, bpmx, bpx_cor, eiv, eig, rslt,
                   c, scores_sm, bmx_cor, ca, outputs>>

\* cell 17: print(scores.mean(0)); print(np.around(100*np.cov(scores.T)))
\* (the covariance is kept as computed, before it is scaled and rounded
\* for display)
Cell17 ==
    /\ At(17, 1)
    /\ out17' = [mean |-> ColumnMeans(scores), cov |-> NpCov(Transpose(scores))]
    /\ pc' = <<19, 1>>
    /\ UNCHANGED <<files, others, err, heap, frames, arrays, out7, out13, out31, out41>>

\* cells that print or plot and bind no name a later cell reads: 19, 23,
\* 27, 29, 43 and 47
DisplayCells == {19, 23, 27, 29, 43, 47}

Display ==
    /\ pc[1] \in DisplayCells /\ pc[2] = 1 /\ err = "none"
    /\ pc' = <<pc[1] + 2, 1>>
    /\ UNCHANGED <<files, others, err, heap, frames, arrays, outputs>>

\* cell 21 with the pulse rates read from df, the table before dropna
Cell21OnDf ==
    /\ At(21, 1)
    /\ out21' = [x |-> Column(Loc(heap[df], <<"BPXPLS">>).data, 1),
                 y |-> Column(scores, 1)]
    /\ pc' = <<23, 1>>
    /\ UNCHANGED <<files, masks, fa, sc, err, heap, frames, arrays, outputs>>

\* cell 21: lowess(scores[:, 0], da.loc[:, "BPXPLS"], frac=0.3) and
\* np.corrcoef(da.loc[:, "BPXPLS"], scores[:, 0]); out21 keeps the two
\* vectors that are paired position by position
Cell21 ==
    /\ At(21, 1)
    /\ out21' = [x |-> Column(Loc(heap[da], <<"BPXPLS">>).data, 1),
                 y |-> Column(scores, 1)]
    /\ pc' = <<23, 1>>
    /\ UNCHANGED <<files, masks, fa, sc, err, heap, frames, arrays, outputs>>

\* x < y for finite numbers of any two radicals: by sign and square
LessAny(x, y) ==
    LET sq(z) == Sign(z) * z.n * z.n * z.r
    IN  sq(x) * y.d * y.d < sq(y) * x.d * x.d

\* (u < hi) & (np.abs(v) < 1), row by row
MaskBelow(u, hi, v) ==
    [i \in 1..Len(u) |-> LessAny(u[i], hi) /\ LessAny(NumAbs(v[i]), One)]

\* (u > lo) & (np.abs(v) < 1), row by row
MaskAbove(u, lo, v) ==
    [i \in 1..Len(u) |-> LessAny(lo, u[i]) /\ LessAny(NumAbs(v[i]), One)]

\* cell 25: the four groups of subjects picked by their first two scores
Cell25 ==
    /\ At(25, 1)
    /\ i0' = MaskBelow(Column(scores, 1), Int2Num(-4), Column(scores, 2))
    /\ i1' = MaskAbove(Column(scores, 1), Int2Num(4), Column(scores, 2))
    /\ i2' = MaskAbove(Column(scores, 2), Int2Num(3), Column(scores, 1))
    /\ i3' = MaskBelow(Column(scores, 2), Norm(-3, 2, 1), Column(scores, 1))
    /\ pc' = <<27, 1>>
    /\ UNCHANGED <<files, fa, out21, sc, err, heap, frames, arrays, outputs>>

\* cell 31 left out of the run: rslt is not fitted
Cell31Skipped ==
    /\ At(31, 1)
    /\ pc' = <<33, 1>>
    /\ UNCHANGED <<files, others, err, heap, frames, arrays, outputs>>

\* cell 31: rslt = sm.PCA(da.loc[:, bpx_vars], ncomp=3);
\*          print(rslt.eigenvals**2 / np.sum(rslt.eigenvals**2))
Cell31 ==
    /\ At(31, 1)
    /\ \E r \in PcaOf(Loc(heap[da], bpx_vars), ncomp) :
        /\ rslt' = r
        /\ out31' = VarianceExplained(r.eigenvals)
    /\ pc' = <<33, 1>>
    /\ UNCHANGED <<files, others, err, heap, frames, bpx_cor, eiv, eig, scores, c,
                   scores_sm, bmx_cor, ca, out7, out13, out17, out41>>

\* cell 33: c = rslt.coeff.iloc[0:3, :].T; c = c / np.sqrt((c**2).sum(0))
Cell33 ==
    /\ At(33, 1)
    /\ c' = UnitLengthColumns(Transpose(Prefix(rslt.coeff, 3)))
    /\ pc' = <<35, 1>>
    /\ UNCHANGED <<files, others, err, heap, frames, bpx_cor, eiv, eig, scores, rslt,
                   scores_sm, bmx_cor, ca, outputs>>

\* np.hstack((a, b)): the rows of b beside the rows of a, by position
NpHstack(a, b) == [i \in 1..Len(a) |-> a[i] \o b[i]]

\* cell 35: scores_sm = rslt.scores;
\*          sc = np.hstack((scores_sm.iloc[:, 0:3], scores[:, 0:3]))
\* (then prints and plots); np.hstack raises ValueError when the two
\* arrays differ in their number of rows
Cell35 ==
    /\ At(35, 1)
    /\ scores_sm' = rslt.scores
    /\ IF Len(rslt.scores) = Len(scores)
       THEN /\ sc' = NpHstack([i \in 1..Len(rslt.scores) |-> Prefix(rslt.scores[i], 3)],
                              [i \in 1..Len(scores) |-> Prefix(scores[i], 3)])
            /\ pc' = <<37, 1>>
            /\ UNCHANGED err
       ELSE /\ err' = "ValueError"
            /\ UNCHANGED <<pc, sc>>
    /\ UNCHANGED <<files, masks, fa, out21, heap, frames, bpx_cor, eiv, eig, scores,
                   rslt, c, bmx_cor, ca, outputs>>

\* cell 37: da = pd.read_sas("BMX_I.XPT"); bmx = da.loc[:, bmx_vars];
\*          bmx = bmx.dropna()
Cell37 ==
    /\ At(37, 1)
    /\ LET h1 == Append(heap, ReadSas(bmxFile))
           a  == FrameLoc(h1, Len(h1), bmx_vars)
           h3 == Append(a.heap, DropNa(a.heap[a.ref]))
       IN  /\ heap' = h3
           /\ da' = Len(h1)
           /\ bmx' = Len(h3)
    /\ pc' = <<39, 1>>
    /\ UNCHANGED <<files, others, err, df, ds, bpx, bpmx, arrays, outputs>>

\* cell 39 with np.cov in place of np.corrcoef: bmx_cor = np.cov(bmx.T)
Cell39Cov ==
    /\ At(39, 1)
    /\ bmx_cor' = NpCov(ValuesT(heap[bmx]))
    /\ pc' = <<41, 1>>
    /\ UNCHANGED <<files, others, err, heap, frames, bpx_cor, eiv, eig, scores, rslt,
                   c, scores_sm, ca, outputs>>

\* cell 39: bmx_cor = np.corrcoef(bmx.T)
Cell39 ==
    /\ At(39, 1)
    /\ bmx_cor' = NpCorrcoef(ValuesT(heap[bmx]))
    /\ pc' = <<41, 1>>
    /\ UNCHANGED <<files, others, err, heap, frames, bpx_cor, eiv, eig, scores, rslt,
                   c, scores_sm, ca, outputs>>

\* cell 41: rslt = sm.PCA(bmx, ncomp=3);
\*          print(rslt.eigenvals**2 / np.sum(rslt.eigenvals**2))
Cell41 ==
    /\ At(41, 1)
    /\ \E r \in PcaOf(heap[bmx], ncomp) :
        /\ rslt' = r
        /\ out41' = VarianceExplained(r.eigenvals)
    /\ pc' = <<43, 1>>
    /\ UNCHANGED <<files, others, err, heap, frames, bpx_cor, eiv, eig, scores, c,
                   scores_sm, bmx_cor, ca, out7, out13, out17, out31>>

\* cell 45: fa = Factor(bmx, n_factor=3, method='ml').fit()
\* (fa keeps the matrix it was given; its fit is not followed)
Cell45 ==
    /\ At(45, 1)
    /\ fa' = [endog |-> heap[bmx].data, columns |-> heap[bmx].columns]
    /\ pc' = <<47, 1>>
    /\ UNCHANGED <<files, masks, out21, sc, err, heap, frames, arrays, outputs>>

\* cell 49, first part: df = pd.read_sas("BPX_I.XPT");
\*   bpx = df.loc[:, bpx_vars + ["SEQN"]].dropna();
\*   df = pd.read_sas("BMX_I.XPT");
\*   bmx = df.loc[:, bmx_vars + ["SEQN"]].dropna()
Cell49Load ==
    /\ At(49, 1)
    /\ LET h1 == Append(heap, ReadSas(bpxFile))
           h2 == Append(h1, DropNa(Loc(h1[Len(h1)], bpx_vars \o <<"SEQN">>)))
           h3 == Append(h2, ReadSas(bmxFile))
           h4 == Append(h3, DropNa(Loc(h3[Len(h3)], bmx_vars \o <<"SEQN">>)))
       IN  /\ heap' = h4
           /\ bpx' = Len(h2)
           /\ df' = Len(h3)
           /\ bmx' = Len(h4)
    /\ pc' = <<49, 2>>
    /\ UNCHANGED <<files, others, err, da, ds, bpmx, arrays, outputs>>

\* cell 49, second part:
\*   bpmx = pd.merge(bpx, bmx, left_on="SEQN", right_on="SEQN")
Cell49Merge ==
    /\ At(49, 2)
    /\ heap' = Append(heap, PdMerge(heap[bpx], heap[bmx], "SEQN"))
    /\ bpmx' = Len(heap) + 1
    /\ pc' = <<49, 3>>
    /\ UNCHANGED <<files, others, err, df, da, ds, bmx, bpx, arrays, outputs>>

\* cell 49, third part: bpx = bpmx.loc[:, bpx_vars];
\*   bmx = bpmx.loc[:, bmx_vars]; ca = CanCorr(bpx, bmx)
\* (ca keeps the two matrices it was given; its fit is not followed)
Cell49CanCorr ==
    /\ At(49, 3)
    /\ LET a == FrameLoc(heap, bpmx, bpx_vars)
           b == FrameLoc(a.heap, bpmx, bmx_vars)
       IN  /\ heap' = b.heap
           /\ bpx' = a.ref
           /\ bmx' = b.ref
           /\ ca' = [endog |-> b.heap[a.ref].data, exog |-> b.heap[b.ref].data]
    /\ pc' = <<51, 1>>
    /\ UNCHANGED <<files, others, err, df, da, ds, bpmx, bpx_cor, eiv, eig, scores,
                   rslt, c, scores_sm, bmx_cor, outputs>>

-----------------------------------------------------------------------------
(* The principal components part of the notebook, cells 3 to 35, on every  *)
(* blood-pressure file of the model.                                       *)

InitPca ==
    /\ bpxFile \in {BpxFile(pats, BpxJunkTwo) : pats \in PatTuples}
    /\ bmxFile = BmxFile(BmxJunkMid)
    /\ Fresh

NextPca ==
    \/ Cell3
    \/ Cell5
    \/ Cell7Eig
    \/ Cell7Sort
    \/ Cell13
    \/ Cell15
    \/ Cell17
    \/ Display
    \/ Cell21
    \/ Cell25
    \/ Cell31
    \/ Cell33
    \/ Cell35

SpecPca == InitPca /\ [][NextPca]_vars

-----------------------------------------------------------------------------
(* The whole notebook, on the files of one pattern of blood-pressure       *)
(* columns and of a pattern with a constant column, with every placement   *)
(* of the rows with a missing value.                                       *)

Init ==
    /\ bpxFile \in {BpxFile(pats, junk) :
                      pats \in {<<1, 2, 3>>, <<0, 1, 2>>}, junk \in BpxJunk}
    /\ bmxFile \in BmxFiles
    /\ Fresh

Next ==
    \/ NextPca
    \/ Cell37
    \/ Cell39
    \/ Cell41
    \/ Cell45
    \/ Cell49Load
    \/ Cell49Merge
    \/ Cell49CanCorr

Spec == Init /\ [][Next]_vars

-----------------------------------------------------------------------------
(* Properties                                                              *)

\* out holds the complete cases of src over the columns names: its rows
\* are rows of src cut to names, under the labels they have in src and in
\* the order of src; a row of src is in out exactly when none of its values
\* in the columns names is missing
IsCompleteCases(out, src, names) ==
    /\ out.columns = names
    /\ Len(out.data) = Len(out.index)
    /\ \A k \in 1..(Len(out.index) - 1) : out.index[k] < out.index[k + 1]
    /\ \A k \in 1..Len(out.index) : \E i \in 1..Len(src.index) :
            out.index[k] = src.index[i]
    /\ \A i \in 1..Len(src.data) :
        (\A j \in 1..Len(names) : ~IsNaN(src.data[i][ColIdx(src, names[j])]))
        <=> (\E k \in 1..Len(out.index) :
                /\ out.index[k] = src.index[i]
                /\ \A j \in 1..Len(names) :
                      out.data[k][j] = src.data[i][ColIdx(src, names[j])])

\* C1: the table the ingestion step makes (cell 3: da of the file df was
\* read from; cell 37: bmx of the file da was read from) holds exactly the
\* rows of the file with no missing value in the selected columns, in the
\* order of the file; no row of it has a missing value
C1_CompleteCases ==
    /\ pc[1] \in 5..35 => IsCompleteCases(heap[da], heap[df], BpxSelected)
    /\ pc[1] \in 39..41 =>
          /\ IsCompleteCases(heap[bmx], heap[da], bmx_vars)
          /\ \A i \in 1..Len(heap[bmx].data) : ~RowHasNa(heap[bmx].data[i])

\* cell 37 has run on a file whose third row has a missing value, after
\* cell 3 dropped the first row and one more of the blood-pressure file
C1_Witness ==
    /\ pc = <<39, 1>>
    /\ Len(heap[bmx].data) + 1 = Len(heap[da].data)
    /\ heap[bmx].index = <<0, 1, 3, 4, 5, 6, 7>>
    /\ Len(heap[df].data) = BaseRows + 2

\* v is in descending (non-increasing) order
Descending(v) == \A k \in 1..(Len(v) - 1) : Leq(v[k + 1], v[k])

\* C2: the sorting step of cell 7 leaves the eigenvalues in descending
\* order, and the sorted eigenvalues and eigenvector columns are the
\* unsorted ones under one and the same permutation, so that column k of
\* eig is still an eigenvector of bpx_cor for eiv[k]
C2_SortKeepsPairs ==
    [][(pc = <<7, 2>> /\ pc' = <<13, 1>>) =>
          /\ Descending(eiv')
          /\ \E f \in Perms(Len(eiv)) :
                /\ eiv' = [k \in 1..Len(eiv) |-> eiv[f[k]]]
                /\ eig' = [i \in 1..Len(eig) |-> [k \in 1..Len(eiv) |-> eig[i][f[k]]]]
          /\ \A k \in 1..Len(eiv') :
                [i \in 1..Len(eig') |-> VDot(bpx_cor[i], Column(eig', k))] =
                    [i \in 1..Len(eig') |-> Mul(eiv'[k], eig'[i][k])]]_vars

\* np.linalg.eig returned the eigenvalues in strictly ascending order, and
\* the sort is about to run
C2_Witness ==
    /\ pc = <<7, 2>>
    /\ \A k \in 1..(Len(eiv) - 1) : Less(eiv[k], eiv[k + 1])

\* the subject identifiers of a table
Subjects(t) == {t.data[i][ColIdx(t, "SEQN")] : i \in 1..Len(t.data)}

\* the measurements names of subject seqn in a file
Measured(file, seqn, names) ==
    {[k \in 1..Len(names) |-> file.data[i][ColIdx(file, names[k])]] :
        i \in {j \in 1..Len(file.data) : file.data[j][ColIdx(file, "SEQN")] = seqn}}

\* C3: bpmx has one row for each subject of both complete-case tables and
\* no other row; the matrices given to CanCorr have the same number of
\* rows, and row i of the one and row i of the other are the measurements
\* of one subject
C3_MatchedPopulation ==
    /\ pc = <<49, 3>> =>
          /\ Subjects(heap[bpmx]) = Subjects(heap[bpx]) \cap Subjects(heap[bmx])
          /\ Len(heap[bpmx].data) = Cardinality(Subjects(heap[bpmx]))
    /\ pc = <<51, 1>> =>
          /\ Len(ca.endog) = Len(ca.exog)
          /\ Len(ca.endog) = Len(heap[bpmx].data)
          /\ \A i \in 1..Len(ca.endog) :
                LET seqn == heap[bpmx].data[i][ColIdx(heap[bpmx], "SEQN")]
                IN  /\ ca.endog[i] \in Measured(bpxFile, seqn, bpx_vars)
                    /\ ca.exog[i] \in Measured(bmxFile, seqn, bmx_vars)

\* CanCorr was given the six subjects of both complete-case tables, of the
\* eight of the one and the seven of the other
C3_Witness ==
    /\ pc = <<51, 1>>
    /\ Len(ca.endog) = 6
    /\ Len(bpxFile.data) = BaseRows + 2

\* C4: no step changes the object da is bound to while da stays bound to
\* it; the standardization step of cell 15 binds ds to another object and
\* leaves every value of da as it was
C4_DaNotMutated ==
    [][/\ (da # 0 /\ da' = da) => heap'[da] = heap[da]
       /\ pc = <<15, 1>> => (da' = da /\ ds' # da /\ heap'[da'] = heap[da])]_vars

\* cell 15 has run: ds holds standardized values, other than those of da
C4_Witness ==
    /\ pc = <<17, 1>>
    /\ heap[ds].data # Loc(heap[da], bpx_vars).data
    /\ heap[ds].columns = bpx_vars

\* v lists one proportion for each of p components: numbers between 0 and
\* 1 that add up to 1
IsProportions(v, p) ==
    /\ Len(v) = p
    /\ \A k \in 1..Len(v) : Leq(Zero, v[k]) /\ Leq(v[k], One)
    /\ SumSeq(v) = One

\* C5: the proportions the notebook prints in cells 13, 31 and 41 are
\* between 0 and 1 and add up to 1 over all p components of the p-variable
\* input, the components sm.PCA(..., ncomp=3) did not retain included
C5_ProportionsOverAll ==
    /\ out13 # <<>> => IsProportions(out13, Len(bpx_vars))
    /\ out31 # <<>> => IsProportions(out31, Len(bpx_vars))
    /\ out41 # <<>> => IsProportions(out41, Len(bmx_vars))

\* C6, as claimed: the proportion printed for the first component exceeds
\* that of every other component, and the proportions are non-increasing
C6_DominantExceeds ==
    out13 # <<>> =>
        /\ \A k \in 2..Len(out13) : Less(out13[k], out13[1])
        /\ Descending(out13)

\* C6, amended: the proportions cell 13 prints are non-increasing, none
\* exceeds the first, and the first exceeds every other one when the
\* largest eigenvalue is not repeated
C6_DominantNotExceeded ==
    out13 # <<>> =>
        /\ Descending(out13)
        /\ \A k \in 2..Len(out13) : Leq(out13[k], out13[1])
        /\ Less(eiv[2], eiv[1]) => \A k \in 2..Len(out13) : Less(out13[k], out13[1])

\* cell 13 has printed three proportions, each smaller than the one before
C6_Witness ==
    /\ pc = <<15, 1>>
    /\ Less(out13[2], out13[1])
    /\ Less(out13[3], out13[2])

\* C7: eig diag(eiv) eig' is bpx_cor, for the pair np.linalg.eig returned
\* and for the pair held after the sort
C7_Reconstruction ==
    eig # <<>> => Dot(eig, Dot(Diag(eiv), Transpose(eig))) = bpx_cor

\* C8: eig eig' is the identity matrix, before and after the sort
C8_Orthonormal ==
    eig # <<>> => Dot(eig, Transpose(eig)) = Eye(Len(bpx_vars))

\* C9: every column of scores has mean zero, and the covariance of every
\* two distinct columns of scores is zero
C9_ScoresUncorrelated ==
    out17 # <<>> =>
        /\ \A k \in 1..Len(out17.mean) : out17.mean[k] = Zero
        /\ \A k, l \in 1..Len(out17.cov) : k # l => out17.cov[k][l] = Zero

\* column k of c is column k of eig or its negative
SameUpToSign(k) ==
    \/ Column(c, k) = Column(eig, k)
    \/ Column(c, k) = [i \in 1..Len(eig) |-> Neg(eig[i][k])]

\* C10, as claimed: each of the three library loading vectors, scaled to
\* unit length, is the eigenvector of that position or its negative
C10_LoadingsAgree ==
    c # <<>> => \A k \in 1..NCols(c) : SameUpToSign(k)

\* C10, amended: the library loading vector of a component whose
\* eigenvalue is not repeated, scaled to unit length, is the eigenvector
\* of that position or its negative
C10_SimpleLoadingsAgree ==
    c # <<>> =>
        \A k \in 1..NCols(c) :
            (\A l \in 1..Len(eiv) : l # k => eiv[l] # eiv[k]) => SameUpToSign(k)

\* cell 33 has run; the library and np.linalg.eig chose opposite signs for
\* the first component and the same sign for the second
C10_Witness ==
    /\ pc = <<35, 1>>
    /\ Column(c, 1) # Column(eig, 1)
    /\ SameUpToSign(1)
    /\ Column(c, 2) = Column(eig, 2)
    /\ Less(eiv[2], eiv[1])

\* every value of the vector is the same
Constant(v) == \A i \in 1..Len(v) : v[i] = v[1]

\* C is a p x p matrix, symmetric, with 1 on the diagonal and every entry
\* in [-1, 1]
IsCorrelationMatrix(C, p) ==
    /\ Len(C) = p
    /\ \A i \in 1..Len(C) : Len(C[i]) = p
    /\ \A i, j \in 1..Len(C) :
          /\ C[i][j] = C[j][i]
          /\ Leq(Neg(One), C[i][j]) /\ Leq(C[i][j], One)
          /\ i = j => C[i][j] = One

\* C11, as claimed: bpx_cor and bmx_cor are p x p for the p columns of
\* their table, symmetric, with 1 on the diagonal and entries in [-1, 1]
C11_CorrelationMatrix ==
    /\ bpx_cor # <<>> => IsCorrelationMatrix(bpx_cor, Len(bpx_vars))
    /\ bmx_cor # <<>> => IsCorrelationMatrix(bmx_cor, Len(bmx_vars))

\* C is p x p for the p columns of the table t; its entry for two columns
\* that both vary is symmetric, in [-1, 1] and 1 on the diagonal; its
\* entry for a pair with a constant column is NaN
IsCorrelationOf(C, t) ==
    /\ Len(C) = Len(t.columns)
    /\ \A i \in 1..Len(C) : Len(C[i]) = Len(t.columns)
    /\ \A i, j \in 1..Len(C) :
          IF Constant(Column(t.data, i)) \/ Constant(Column(t.data, j))
          THEN IsNaN(C[i][j])
          ELSE /\ C[i][j] = C[j][i]
               /\ Leq(Neg(One), C[i][j]) /\ Leq(C[i][j], One)
               /\ i = j => C[i][j] = One

\* C11, amended: the matrix np.corrcoef computes is p x p; over the
\* columns that are not constant it is symmetric with 1 on the diagonal
\* and entries in [-1, 1]; the row and the column of a constant column
\* hold NaN
C11_CorrelationOfVarying ==
    /\ pc[1] \in 7..35 => IsCorrelationOf(bpx_cor, Loc(heap[da], bpx_vars))
    /\ pc[1] \in 41..47 => IsCorrelationOf(bmx_cor, heap[bmx])

\* cell 39 has run: bmx_cor has an off-diagonal entry that is neither 0
\* nor of absolute value 1, and bpx_cor has no NaN
C11_Witness ==
    /\ pc = <<41, 1>>
    /\ \E i, j \in 1..Len(bmx_cor) :
          i # j /\ ~IsZero(bmx_cor[i][j]) /\ Less(NumAbs(bmx_cor[i][j]), One)
    /\ ~HasNonFinite(bpx_cor)

\* the table the standardization of cell 15 makes of da:
\* ds = da.loc[:, bpx_vars]; ds -= ds.mean(0); ds /= da.std(0)
StandardizedDa ==
    LET a  == FrameLoc(heap, da, bpx_vars)
        h1 == [a.heap EXCEPT ![a.ref] = ISubSeries(@, FrameMean(@))]
    IN  IDivSeries(h1[a.ref], FrameStd(h1[da]))

\* some selected column of da is constant
HasConstantColumn ==
    \E j \in 1..Len(bpx_vars) :
        Constant(Column(Loc(heap[da], bpx_vars).data, j))

\* the standardization has run
Standardized == ds # 0

\* C12, the division: standardizing da gives NaN in every entry of a
\* constant column and a finite value in every entry of any other column
C12_DivisionFailsOnConstant ==
    (pc[1] \in 5..35 /\ da # 0) =>
        LET t == StandardizedDa
        IN  \A j \in 1..Len(t.columns) : \A i \in 1..Len(t.data) :
                IF Constant(Column(Loc(heap[da], bpx_vars).data, j))
                THEN IsNaN(t.data[i][j])
                ELSE IsFinite(t.data[i][j])

\* C12, as claimed: on a table with a constant column the run reaches the
\* standardization of cell 15 and the first non-finite value appears
\* there: none before it and no error raised; on any other table every
\* standardized entry is finite
C12_FailsAtStandardization ==
    /\ C12_DivisionFailsOnConstant
    /\ ~Standardized => (err = "none" /\ ~HasNonFinite(bpx_cor))
    /\ Standardized => (HasNonFinite(heap[ds].data) <=> HasConstantColumn)

\* C12, amended: the division of the standardization is unguarded and
\* gives NaN exactly in constant columns, but on a table with a constant
\* column the first non-finite values are those of bpx_cor in cell 5 and
\* np.linalg.eig raises LinAlgError in cell 7, so the standardization is
\* never run on such a table; where it runs, every entry of ds is finite
C12_FailsBeforeStandardization ==
    /\ C12_DivisionFailsOnConstant
    /\ (pc[1] \in 7..35 /\ HasConstantColumn) =>
          /\ HasNonFinite(bpx_cor)
          /\ pc = <<7, 1>>
          /\ ~Standardized
    /\ (pc[1] \in 7..35 /\ ~HasConstantColumn) =>
          /\ ~HasNonFinite(bpx_cor)
          /\ err = "none"
    /\ err = "LinAlgError" => (pc = <<7, 1>> /\ HasConstantColumn)
    /\ Standardized => ~HasNonFinite(heap[ds].data)

\* cell 7 has raised LinAlgError on the correlation matrix of a table with
\* a constant column, before any standardization
C12_Witness ==
    /\ err = "LinAlgError"
    /\ HasConstantColumn
    /\ HasNonFinite(bpx_cor)
    /\ ~Standardized
    /\ HasNonFinite(StandardizedDa.data)

\* cell 15 has standardized a table without a constant column
C12_WitnessFinite ==
    /\ pc = <<17, 1>>
    /\ ~HasConstantColumn
    /\ ~HasNonFinite(heap[ds].data)

\* the name holds a DataFrame object
Bound(id) == id \in 1..Len(heap)

\* da holds the complete cases of the blood-pressure file, with the columns
\* bpx_vars, SEQN and BPXPLS
DaIsBpx ==
    /\ Bound(da)
    /\ heap[da] = DropNa(Loc(ReadSas(bpxFile), BpxSelected))

\* bmx holds the complete cases of the body-measures file, with the columns
\* bmx_vars
BmxIsBmx ==
    /\ Bound(bmx)
    /\ heap[bmx] = BmxTable(bmxFile)

\* a matrix of n rows and m columns is bound
BoundMatrix(a, n, m) ==
    /\ Len(a) = n
    /\ \A i \in 1..Len(a) : Len(a[i]) = m

\* a mask over the rows of scores is bound
BoundMask(i) == Len(i) = Len(scores) /\ Len(i) > 0

\* the table has a column of this name
HasColumn(t, name) == \E j \in 1..Len(t.columns) : t.columns[j] = name

\* what the cell at pc reads is bound and holds the table the cell expects
ReadsBound ==
    LET cell == pc[1]
        p    == Len(bpx_vars)
        n    == Len(heap[da].data)
    IN  /\ cell \in {5, 15, 21, 23, 29, 31} => DaIsBpx
        /\ cell = 7 => BoundMatrix(bpx_cor, p, p)
        /\ pc = <<7, 2>> => Len(eiv) = p /\ BoundMatrix(eig, p, p)
        /\ cell = 13 => Len(eiv) = p
        /\ cell = 15 => BoundMatrix(eig, p, p)
        /\ cell \in {17, 19, 21, 23, 25, 35} =>
              DaIsBpx /\ BoundMatrix(scores, n, p)
        /\ cell = 27 =>
              /\ BoundMask(i0) /\ BoundMask(i1) /\ BoundMask(i2) /\ BoundMask(i3)
              /\ Bound(ds)
              /\ heap[ds].columns = bpx_vars
              /\ heap[ds].index = heap[da].index
        /\ cell \in {33, 35} =>
              rslt \in PcaOf(Loc(heap[da], bpx_vars), ncomp)
        /\ cell \in {39, 41, 45} => BmxIsBmx
        /\ cell = 43 => rslt \in PcaOf(heap[bmx], ncomp)
        /\ cell = 47 =>
              /\ BmxIsBmx
              /\ fa # <<>>
              /\ fa.endog = heap[bmx].data
        /\ pc = <<49, 2>> =>
              /\ Bound(bpx) /\ heap[bpx].columns = bpx_vars \o <<"SEQN">>
              /\ Bound(bmx) /\ heap[bmx].columns = bmx_vars \o <<"SEQN">>
        /\ pc = <<49, 3>> =>
              /\ Bound(bpmx)
              /\ \A k \in 1..Len(bpx_vars) : HasColumn(heap[bpmx], bpx_vars[k])
              /\ \A k \in 1..Len(bmx_vars) : HasColumn(heap[bpmx], bmx_vars[k])

\* C13: run from top to bottom, every cell finds the names it reads bound
\* by an earlier cell to the table it expects: the cells that read da as
\* the blood-pressure table run before cell 37 rebinds it, and the scores
\* cell 35 takes are those of the fit on the blood-pressure table
C13_DefinedBeforeUse ==
    /\ err = "none" => ReadsBound
    /\ scores_sm # <<>> =>
          \E r \in PcaOf(BpxTable(bpxFile), ncomp) : scores_sm = r.scores

\* cell 41 has refitted rslt on the body measures after cell 37 rebound
\* da, and scores_sm was taken before that
C13_Witness ==
    /\ pc = <<43, 1>>
    /\ heap[da].columns # BpxSelected
    /\ rslt.columns = bmx_vars
    /\ scores_sm # <<>>
    /\ scores_sm # rslt.scores

\* the value the table holds for the subject of this index label in the
\* named column
ValueOf(t, label, name) ==
    t.data[CHOOSE i \in 1..Len(t.index) : t.index[i] = label][ColIdx(t, name)]

\* the scores of one row of blood-pressure values v: each value less its
\* column's mean over da, over its column's standard deviation (ddof = 1),
\* times eig
ScoresOfRow(v) ==
    LET cols == ValuesT(Loc(heap[da], bpx_vars))
        z    == [j \in 1..Len(v) |->
                   Div(Sub(v[j], VMean(cols[j])), Sqrt(Cov2(cols[j], cols[j], 1)))]
    IN  [k \in 1..NCols(eig) |-> VDot(z, Column(eig, k))]

\* the two columns are proportional: row by row they hold the same
\* quantity up to one common factor
Proportional(u, v) ==
    /\ Len(u) = Len(v)
    /\ \A i, j \in 1..Len(u) : Mul(u[i], v[j]) = Mul(u[j], v[i])

\* eigenvalue k is not repeated
Simple(k) == \A l \in 1..Len(eiv) : l # k => eiv[l] # eiv[k]

\* C14: scores and rslt.scores have one row per row of da, in da's order,
\* row i computed from row i of da; cell 21 pairs the pulse rate and the
\* score of one subject, and cell 35 puts the library scores and the manual
\* scores of one subject in one row of sc
C14_RowsAligned ==
    /\ (pc[1] \in 17..37 /\ err = "none") =>
          /\ Len(scores) = Len(heap[da].data)
          /\ heap[ds].index = heap[da].index
    /\ (pc[1] \in 17..31 /\ err = "none") =>
          \A i \in 1..Len(scores) :
                scores[i] = ScoresOfRow(
                    [j \in 1..Len(bpx_vars) |->
                        ValueOf(heap[df], heap[da].index[i], bpx_vars[j])])
    /\ (pc[1] \in 33..37 /\ err = "none") =>
          /\ Len(rslt.scores) = Len(heap[da].data)
          /\ rslt.index = heap[da].index
    /\ (pc[1] \in 23..37 /\ err = "none") =>
          /\ Len(out21.x) = Len(heap[da].data)
          /\ Len(out21.y) = Len(heap[da].data)
          /\ \A i \in 1..Len(out21.x) :
                /\ out21.x[i] = ValueOf(heap[df], heap[da].index[i], "BPXPLS")
                /\ out21.y[i] = scores[i][1]
    /\ (pc = <<37, 1>> /\ err = "none") =>
          /\ Len(sc) = Len(heap[da].data)
          /\ \A i \in 1..Len(sc) :
                sc[i] = Prefix(scores_sm[i], 3) \o Prefix(scores[i], 3)
          /\ \A k \in 1..ncomp :
                Simple(k) => Proportional(Column(sc, k), Column(sc, ncomp + k))

\* cell 35 has stacked the scores of a table that lost rows to dropna, so
\* that the position of a row is not its label, and the scores tell the
\* subjects apart
C14_Witness ==
    /\ pc = <<37, 1>>
    /\ Len(heap[da].data) < Len(heap[df].data)
    /\ \E i \in 1..Len(heap[da].index) : heap[da].index[i] # i - 1
    /\ \E i, j \in 1..Len(sc) : sc[i][1] # sc[j][1]
    /\ \E i, j \in 1..Len(out21.x) : out21.x[i] # out21.x[j]
    /\ Simple(1)

=============================================================================
